---- MODULE Spec2Model ----
(***************************************************************************)
(* The Kanban board of src/components/Board: Board.tsx (lane and item      *)
(* state, drag and drop commit, lane reordering and lifecycle) and the     *)
(* lane component BoardLane (menu guards, pending lane input).             *)
(*                                                                         *)
(* JavaScript objects whose key order matters (arrangedLanes,              *)
(* arrangedItems, props.items) are sequences of entries in insertion       *)
(* order; lane and item keys are strings that are not integer-like, so     *)
(* Object.keys returns them in insertion order.  JavaScript arrays are     *)
(* 1-based sequences here; every index that comes from or goes to the      *)
(* code (source.index, destination.index, order, indexOf) is 0-based.      *)
(***************************************************************************)
EXTENDS Integers, Sequences, FiniteSets, TLC

VARIABLES
    arrangedLanes,        \* Board.tsx:525  ordered mapping laneKey -> {title}
    arrangedItems,        \* Board.tsx:527  ordered mapping laneKey -> items
    addingLane,           \* Board.tsx:531
    placeholderPosition,  \* Board.tsx:204
    idCounter,            \* lodash uniqueId's counter (Board.tsx:490, 502)
    drag,                 \* the drag in progress (react-beautiful-dnd), or Null
    crashed,              \* a handler threw after it changed arrangedItems in place
    last,                 \* the handler that ran last, which case of it, and
                          \* the number of provided.announce calls it made
    layoutState,          \* BoardLane:157, of one lane
    scrollbarWidth,       \* BoardLane:158
    laneContentWidth,     \* BoardLane:160, the ref's current: << >> for null
    resizeListeners,      \* the lane's onResize closures registered on window,
                          \* each named by the render that made it
    laneRenders,          \* the number of times the lane has rendered
    laneEffect,           \* the render whose layout effect ran last (0: none)
    laneMounted,          \* the lane is in the tree
    windowWidth           \* the width the window leaves to the lane's content

boardVars == <<arrangedLanes, arrangedItems, addingLane, placeholderPosition,
               idCounter, drag, crashed, last>>

laneVars == <<layoutState, scrollbarWidth, laneContentWidth, resizeListeners,
              laneRenders, laneEffect, laneMounted, windowWidth>>

vars == <<boardVars, laneVars>>

----------------------------------------------------------------------------
(* Bounds of the model *)

\* number of items of props.items
NItems == 3
\* largest value lodash's id counter takes
MaxId == 2

----------------------------------------------------------------------------
(* Values *)

Null == [null |-> TRUE]

\* JavaScript's undefined in the place of an item (movingItems[0] of an
\* empty array)
undefined == [itemKey |-> "undefined", lane |-> "undefined", order |-> -1]

Min(a, b) == IF a < b THEN a ELSE b
Max(a, b) == IF a > b THEN a ELSE b

\* the lanes an embedding application passes: props.lanes is any
\* sub-mapping of this one; further lanes are added through the board
LaneProps == << [key |-> "a", title |-> "A"] >>

\* the lane values an item of props.items may name; "x" is never a lane
ItemLanes == {"a", "x"}

\* what the user may have typed into the pending lane's input
InputValues == {"", "X"}

ItemKeyOf(i) == "i" \o ToString(i)

----------------------------------------------------------------------------
(* Ordered mappings (JavaScript objects) *)

Keys(m) == [i \in 1..Len(m) |-> m[i].key]

KeySet(m) == {m[i].key : i \in 1..Len(m)}

HasOwnProperty(m, k) == k \in KeySet(m)

EntryIndex(m, k) == CHOOSE i \in 1..Len(m) : m[i].key = k

\* Object.assign(m, {[k]: entry}): an existing key keeps its place
ObjectAssign(m, entry) ==
    IF HasOwnProperty(m, entry.key)
    THEN [m EXCEPT ![EntryIndex(m, entry.key)] = entry]
    ELSE Append(m, entry)

\* lodash omit(m, [k])
Omit(m, k) == SelectSeq(m, LAMBDA e : e.key # k)

LaneTitle(lanes, k) == lanes[EntryIndex(lanes, k)].title

ItemsOf(items, k) == items[EntryIndex(items, k)].items

SetItemsOf(items, k, s) == [items EXCEPT ![EntryIndex(items, k)].items = s]

----------------------------------------------------------------------------
(* Arrays *)

\* Array.prototype.indexOf, 0-based, -1 when absent
IndexOf(s, x) ==
    IF \E i \in 1..Len(s) : s[i] = x
    THEN (CHOOSE i \in 1..Len(s) : s[i] = x /\ \A j \in 1..(i-1) : s[j] # x) - 1
    ELSE -1

\* findIndex((laneItem) => laneItem.itemKey === key), 0-based, -1 when absent
FindIndexByKey(s, key) == IndexOf([i \in 1..Len(s) |-> s[i].itemKey], key)

\* the actual start of splice(start, ...): a negative start counts from the
\* end, and the result is clamped to 0..length
SpliceStart(s, start) ==
    IF start < 0 THEN Max(Len(s) + start, 0) ELSE Min(start, Len(s))

SpliceCount(s, start, deleteCount) ==
    Min(Max(deleteCount, 0), Len(s) - SpliceStart(s, start))

\* the array splice(start, deleteCount) returns
SpliceRemoved(s, start, deleteCount) ==
    SubSeq(s, SpliceStart(s, start) + 1,
              SpliceStart(s, start) + SpliceCount(s, start, deleteCount))

\* the array after splice(start, deleteCount, ...ins)
SpliceResult(s, start, deleteCount, ins) ==
    SubSeq(s, 1, SpliceStart(s, start)) \o ins \o
    SubSeq(s, SpliceStart(s, start) + SpliceCount(s, start, deleteCount) + 1, Len(s))

----------------------------------------------------------------------------
(* prepareBoardItems, Board.tsx:106-129 *)

\* Array.prototype.sort((a, b) => a.order - b.order): ascending and stable
RECURSIVE SortByOrder(_)
SortByOrder(s) ==
    IF Len(s) <= 1 THEN s
    ELSE LET head == SortByOrder(SubSeq(s, 1, Len(s) - 1))
             x    == s[Len(s)]
             keep == Cardinality({i \in 1..Len(head) : head[i].order <= x.order})
         IN  SubSeq(head, 1, keep) \o <<x>> \o SubSeq(head, keep + 1, Len(head))

\* the first reduce: the items of one lane value, in Object.keys(items) order
UnsortedGroup(items, laneKey) == SelectSeq(items, LAMBDA it : it.lane = laneKey)

\* a variant of prepareBoardItems that leaves each group in Object.keys order
prepareBoardItemsUnsorted(items, lanes) ==
    [i \in 1..Len(lanes) |->
        [key   |-> lanes[i].key,
         items |-> UnsortedGroup(items, lanes[i].key)]]

\* items: the entries of props.items, each already carrying its itemKey
prepareBoardItems(items, lanes) ==
    [i \in 1..Len(lanes) |->
        [key   |-> lanes[i].key,
         items |-> IF \E j \in 1..Len(items) : items[j].lane = lanes[i].key
                   THEN SortByOrder(UnsortedGroup(items, lanes[i].key))
                   ELSE << >>]]

----------------------------------------------------------------------------
(* The inputs of Board: props.lanes and props.items *)

\* every sub-mapping of LaneProps
PropsLanes ==
    { SelectSeq(LaneProps, LAMBDA l : l.key \in ks) : ks \in SUBSET KeySet(LaneProps) }

\* order is a dense rank per lane value: the orders of the items that name
\* one lane are 0..n-1, each once
DenseOrders(items) ==
    \A l \in ItemLanes :
        LET of == {j \in 1..Len(items) : items[j].lane = l}
        IN  /\ {items[j].order : j \in of} = 0..(Cardinality(of) - 1)
            /\ \A j, k \in of : items[j].order = items[k].order => j = k

PropsItems ==
    { items \in [1..NItems -> [itemKey : {ItemKeyOf(i) : i \in 1..NItems},
                               lane : ItemLanes, order : 0..(NItems - 1)]] :
        /\ \A i \in 1..NItems : items[i].itemKey = ItemKeyOf(i)
        /\ DenseOrders(items) }

\* the lane component once its layout pass is over, which is before any
\* handler of the board can run (BoardLane:166-201 runs synchronously)
LaneLaidOut ==
    /\ layoutState = 2
    /\ scrollbarWidth = 16
    /\ laneContentWidth = <<240>>
    /\ resizeListeners = {}
    /\ laneRenders = 4
    /\ laneEffect = 4
    /\ laneMounted = TRUE
    /\ windowWidth = 240

\* Board.tsx:524-531 and 202-206: the state after the first render
Init ==
    /\ \E lanes \in PropsLanes, items \in PropsItems :
          /\ arrangedLanes = lanes
          /\ arrangedItems = prepareBoardItems(items, lanes)
    /\ addingLane = FALSE
    /\ placeholderPosition = Null
    /\ idCounter = 0
    /\ drag = Null
    /\ crashed = FALSE
    /\ last = [op |-> "init", tag |-> "", announced |-> 0]
    /\ LaneLaidOut

\* no handler runs during a drag (the pointer or keyboard is captured by
\* the drag) nor after the board failed to render
Idle == drag = Null /\ ~crashed


\* what a handler leaves in last
Ran(op, tag, announced) == [op |-> op, tag |-> tag, announced |-> announced]

----------------------------------------------------------------------------
(* Lane reordering and deletion, Board.tsx:337-354, BoardLane menu *)

\* a variant of MovedLaneKeys that inserts the key before it removes it
MovedLaneKeysInsertedFirst(laneKeys, laneKey, delta) ==
    LET from == IndexOf(laneKeys, laneKey)
    IN  SpliceResult(SpliceResult(laneKeys, from + delta, 0, <<laneKey>>),
                     from, 1, << >>)

\* Board.tsx:338-340: the key array after
\* laneKeys.splice(from + delta, 0, laneKeys.splice(from, 1)[0])
MovedLaneKeys(laneKeys, laneKey, delta) ==
    LET from    == IndexOf(laneKeys, laneKey)
        removed == SpliceRemoved(laneKeys, from, 1)
        rest    == SpliceResult(laneKeys, from, 1, << >>)
    IN  SpliceResult(rest, from + delta, 0, <<removed[1]>>)

\* Board.tsx:337-350: the mapping moveLane passes to setArrangedLanes
moveLane(lanes, laneKey, delta) ==
    LET laneKeys == MovedLaneKeys(Keys(lanes), laneKey, delta)
    IN  [i \in 1..Len(laneKeys) |->
            [key |-> laneKeys[i], title |-> LaneTitle(lanes, laneKeys[i])]]

\* a variant of IsFirst under which "move lane nearer" is never disabled
IsFirstNever(laneIndex) == FALSE

\* Board.tsx:398-399: the first and last props of the lane at laneIndex
IsFirst(laneIndex) == laneIndex = 0

IsLast(laneIndex) ==
    IF addingLane THEN FALSE ELSE laneIndex = Len(arrangedLanes) - 1

\* whether from + delta is an index of the lane array
MoveCase(laneIndex, delta) ==
    IF laneIndex + delta \in 0..(Len(arrangedLanes) - 1) THEN "swap" ELSE "edge"

\* BoardLane menu "move lane nearer", disabled: first
MoveLaneNearer(laneKey) ==
    /\ Idle
    /\ ~IsFirst(IndexOf(Keys(arrangedLanes), laneKey))
    /\ arrangedLanes' = moveLane(arrangedLanes, laneKey, -1)
    /\ last' = Ran("moveLane", MoveCase(IndexOf(Keys(arrangedLanes), laneKey), -1), 0)
    /\ UNCHANGED <<laneVars, arrangedItems, addingLane, placeholderPosition, idCounter,
                   drag, crashed>>

\* BoardLane menu "move lane further", disabled: last
MoveLaneFurther(laneKey) ==
    /\ Idle
    /\ ~IsLast(IndexOf(Keys(arrangedLanes), laneKey))
    /\ arrangedLanes' = moveLane(arrangedLanes, laneKey, 1)
    /\ last' = Ran("moveLane", MoveCase(IndexOf(Keys(arrangedLanes), laneKey), 1), 0)
    /\ UNCHANGED <<laneVars, arrangedItems, addingLane, placeholderPosition, idCounter,
                   drag, crashed>>

\* a variant of deleteLane that drops the last lane, whatever laneKey is
deleteLaneLast(lanes, laneKey) == SubSeq(lanes, 1, Len(lanes) - 1)

\* Board.tsx:352-354
deleteLane(lanes, laneKey) == Omit(lanes, laneKey)

\* BoardLane menu "delete", disabled: preparedItems?.length
DeleteLane(laneKey) ==
    /\ Idle
    /\ Len(ItemsOf(arrangedItems, laneKey)) = 0
    /\ arrangedLanes' = deleteLane(arrangedLanes, laneKey)
    /\ last' = Ran("deleteLane", "", 0)
    /\ UNCHANGED <<laneVars, arrangedItems, addingLane, placeholderPosition, idCounter,
                   drag, crashed>>

----------------------------------------------------------------------------
(* Adding a lane, Board.tsx:486-515, 557 and BoardLane:229-247 *)

\* Toolbar "add lane": add_column: () => setAddingLane(true)
AddColumn ==
    /\ Idle
    /\ addingLane' = TRUE
    /\ last' = Ran("add_column", "", 0)
    /\ UNCHANGED <<laneVars, arrangedLanes, arrangedItems, placeholderPosition, idCounter,
                   drag, crashed>>

\* lodash uniqueId(prefix): prefix + (++idCounter).  The counter is shared
\* by every caller on the page (the pending lane takes uniqueId("pl") on
\* each render, Board.tsx:490), so the id is any value above the last one.
UniqueIds == (idCounter + 1)..MaxId

\* a variant of NewLaneKey that leaves the id out of the key
NewLaneKeyNoId(id) == "sl"

NewLaneKey(id) == "sl" \o ToString(id)

\* a variant of exitPendingLane without the test value.length > 0
exitPendingLaneUnchecked(value, id) ==
    /\ id \in UniqueIds
    /\ idCounter' = id
    /\ arrangedLanes' =
          ObjectAssign(arrangedLanes, [key |-> "sl" \o ToString(id), title |-> value])
    /\ arrangedItems' =
          ObjectAssign(arrangedItems, [key |-> "sl" \o ToString(id), items |-> << >>])
    /\ addingLane' = FALSE

\* Board.tsx:500-513, with the id uniqueId gives
exitPendingLane(value, id) ==
    /\ IF Len(value) > 0
       THEN /\ id \in UniqueIds
            /\ idCounter' = id
            /\ arrangedLanes' =
                  ObjectAssign(arrangedLanes, [key |-> NewLaneKey(id), title |-> value])
            /\ arrangedItems' =
                  ObjectAssign(arrangedItems, [key |-> NewLaneKey(id), items |-> << >>])
       ELSE /\ id = idCounter
            /\ UNCHANGED <<idCounter, arrangedLanes, arrangedItems>>
    /\ addingLane' = FALSE

ExitCase(value, typed) ==
    IF Len(value) > 0 THEN "promote"
    ELSE IF Len(typed) > 0 THEN "discard typed" ELSE "discard empty"

\* BoardLane:233-235 onBlur and 240-241 Enter: exitPendingLane(e.target.value)
ExitPendingLaneByValue(value, id) ==
    /\ Idle
    /\ addingLane
    /\ exitPendingLane(value, id)
    /\ last' = Ran("exitPendingLane", ExitCase(value, value), 0)
    /\ UNCHANGED <<laneVars, placeholderPosition, drag, crashed>>

\* BoardLane:238-239 Escape: exitPendingLane("") whatever was typed
ExitPendingLaneByEscape(typed, id) ==
    /\ Idle
    /\ addingLane
    /\ exitPendingLane("", id)
    /\ last' = Ran("exitPendingLane", ExitCase("", typed), 0)
    /\ UNCHANGED <<laneVars, placeholderPosition, drag, crashed>>

----------------------------------------------------------------------------
(* Placeholder geometry, Board.tsx:136-172 *)

\* clientHeight and clientWidth of a rendered card (a DOM measurement)
CardSize == [clientHeight |-> 40, clientWidth |-> 200]

\* Board.tsx:143-155: how many children getClientYChildren returns: the
\* cards of the lane other than the dragged one, cut to the first endIndex
ClientYChildren(laneItems, draggableId, endIndex) ==
    Len(SpliceResult(SelectSeq(laneItems, LAMBDA it : it.itemKey # draggableId),
                     endIndex, Len(laneItems), << >>))

\* Board.tsx:157-172 for a dragged card that is in the document; the
\* array [clientX, clientY, clientWidth, clientHeight] is a record here,
\* named as BoardLane:114-117 uses its elements
getPlaceholderPosition(nChildren) ==
    [left   |-> 20,
     top    |-> 2 + nChildren * (CardSize.clientHeight + 8),
     width  |-> CardSize.clientWidth,
     height |-> CardSize.clientHeight]

----------------------------------------------------------------------------
(* Drag and drop, Board.tsx:208-335 *)

\* the droppableId of the pending lane, uniqueId("pl"): never a key of
\* arrangedLanes or arrangedItems
PendingLaneKey == "pl"

\* BoardLane:344, Board.tsx:393, 486: the droppables on screen
Droppables ==
    KeySet(arrangedLanes) \cup (IF addingLane THEN {PendingLaneKey} ELSE {})

\* the destinations react-beautiful-dnd reports for the drag in progress:
\* none, or a droppable and an insertion index among its other cards
Destinations ==
    {Null} \cup
    { [droppableId |-> d, index |-> j] :
        d \in Droppables,
        j \in 0..NItems }

DestinationOk(destination) ==
    IF destination = Null THEN TRUE
    ELSE IF destination.droppableId = PendingLaneKey THEN destination.index = 0
    ELSE destination.index <=
            Len(SelectSeq(ItemsOf(arrangedItems, destination.droppableId),
                          LAMBDA it : it.itemKey # drag.draggableId))

\* Board.tsx:208-239.  BoardLane:364 gives each card index={item.order}, and
\* that index is what the library reports as source.index.
onDragStart(laneKey, pos) ==
    LET boardItem == ItemsOf(arrangedItems, laneKey)[pos]
    IN  /\ Idle
        /\ drag' = [draggableId |-> boardItem.itemKey,
                    source |-> [droppableId |-> laneKey, index |-> boardItem.order]]
        /\ placeholderPosition' =
              getPlaceholderPosition(
                  ClientYChildren(ItemsOf(arrangedItems, laneKey),
                                  boardItem.itemKey, boardItem.order))
        /\ last' = Ran("onDragStart", "", 1)
        /\ UNCHANGED <<laneVars, arrangedLanes, arrangedItems, addingLane, idCounter, crashed>>

\* Board.tsx:241-282
onDragUpdate(destination) ==
    /\ drag # Null
    /\ ~crashed
    /\ DestinationOk(destination)
    /\ IF destination = Null
       THEN \* line 242
            /\ last' = Ran("onDragUpdate", "no destination", 0)
            /\ UNCHANGED placeholderPosition
       ELSE IF ~HasOwnProperty(arrangedItems, destination.droppableId)
       THEN \* line 264: arrangedItems[destinationLaneKey] is undefined, TypeError
            /\ last' = Ran("onDragUpdate", "throw", 0)
            /\ UNCHANGED placeholderPosition
       ELSE /\ last' = Ran("onDragUpdate",
                           IF destination.droppableId = drag.source.droppableId
                           THEN "same lane" ELSE "different lane", 1)
            /\ placeholderPosition' =
                  getPlaceholderPosition(
                      ClientYChildren(ItemsOf(arrangedItems, destination.droppableId),
                                      drag.draggableId, destination.index))
    /\ UNCHANGED <<laneVars, arrangedLanes, arrangedItems, addingLane, idCounter, drag, crashed>>

\* Board.tsx:131-134 under Array.prototype.map: resetOrder(item, index) for
\* each element in turn; on undefined the assignment item.order = newOrder
\* throws and the elements after it are not visited
MapResetOrder(s) ==
    [i \in 1..Len(s) |->
        IF \E j \in 1..i : s[j] = undefined THEN s[i]
        ELSE [s[i] EXCEPT !.order = i - 1]]

MapResetOrderThrows(s) == \E i \in 1..Len(s) : s[i] = undefined

\* Board.tsx:317-322: arrangedItems after the source lane's splice and re-rank
AfterSourceSplice(items, source) ==
    SetItemsOf(items, source.droppableId,
               MapResetOrder(SpliceResult(ItemsOf(items, source.droppableId),
                                          source.index, 1, << >>)))

\* Board.tsx:320, 327: movingItems[0]
MovingItem(items, source) ==
    LET movingItems == SpliceRemoved(ItemsOf(items, source.droppableId), source.index, 1)
    IN  IF Len(movingItems) = 0 THEN undefined ELSE movingItems[1]

\* a variant of DestinationSpliced that pushes the moving item at the end of
\* the destination lane, whatever destination.index is
DestinationSplicedAtEnd(items, source, destination) ==
    ItemsOf(AfterSourceSplice(items, source), destination.droppableId)
        \o <<MovingItem(items, source)>>

\* Board.tsx:324-328: the destination lane's array after the insertion
DestinationSpliced(items, source, destination) ==
    SpliceResult(ItemsOf(AfterSourceSplice(items, source), destination.droppableId),
                 destination.index, 0, <<MovingItem(items, source)>>)

\* Board.tsx:316-330: arrangedItems as the handler leaves it, changed in place
Dropped(items, source, destination) ==
    SetItemsOf(AfterSourceSplice(items, source), destination.droppableId,
               MapResetOrder(DestinationSpliced(items, source, destination)))

DropCase(source, destination) ==
    IF destination.droppableId = source.droppableId
    THEN "same lane" ELSE "different lane"

\* a variant of ItemsAfterDragEnd whose test of destination comes after the
\* source lane's splice
ItemsAfterDragEndSplicedFirst(items, source, destination) ==
    IF destination = Null THEN AfterSourceSplice(items, source)
    ELSE Dropped(items, source, destination)

\* Board.tsx:316-334: if (destination) { ... }, else arrangedItems is left alone
ItemsAfterDragEnd(items, source, destination) ==
    IF destination = Null THEN items ELSE Dropped(items, source, destination)

\* line 330 throws on movingItems[0] === undefined: lines 332-333 are not reached
DragEndThrows(items, source, destination) ==
    IF destination = Null THEN FALSE
    ELSE MapResetOrderThrows(DestinationSpliced(items, source, destination))

\* line 302: arrangedItems[laneKey].length with no such lane, a TypeError
\* before the announcement
AnnouncementThrows(items, destination) ==
    IF destination = Null THEN FALSE
    ELSE ~HasOwnProperty(items, destination.droppableId)

DragEndCase(source, destination) ==
    IF destination = Null THEN "cancel" ELSE DropCase(source, destination)

\* Board.tsx:284-335
onDragEnd(destination) ==
    /\ drag # Null
    /\ ~crashed
    /\ DestinationOk(destination)
    /\ drag' = Null
    /\ IF AnnouncementThrows(arrangedItems, destination)
       THEN /\ last' = Ran("onDragEnd", "throw", 0)
            /\ UNCHANGED <<arrangedItems, placeholderPosition, crashed>>
       ELSE /\ last' = Ran("onDragEnd", DragEndCase(drag.source, destination), 1)
            /\ arrangedItems' = ItemsAfterDragEnd(arrangedItems, drag.source, destination)
            /\ crashed' = DragEndThrows(arrangedItems, drag.source, destination)
            /\ placeholderPosition' =
                  IF destination = Null
                     \/ DragEndThrows(arrangedItems, drag.source, destination)
                  THEN placeholderPosition
                  ELSE Null
    /\ UNCHANGED <<laneVars, arrangedLanes, addingLane, idCounter>>

----------------------------------------------------------------------------
(* Deleting an item, Board.tsx:457-467 *)

\* boardItem is the card whose menu is open: the item at pos of the lane
\* laneKey shows
onConfirm(laneKey, pos) ==
    LET boardItem == ItemsOf(arrangedItems, laneKey)[pos]
        laneItems == ItemsOf(arrangedItems, boardItem.lane)
    IN  /\ Idle
        /\ arrangedItems' =
              SetItemsOf(arrangedItems, boardItem.lane,
                         SpliceResult(laneItems,
                                      FindIndexByKey(laneItems, boardItem.itemKey),
                                      1, << >>))
        /\ last' = Ran("onConfirm", "", 0)
        /\ UNCHANGED <<laneVars, arrangedLanes, addingLane, placeholderPosition, idCounter,
                       drag, crashed>>

----------------------------------------------------------------------------

Next ==
    \/ \E laneKey \in KeySet(arrangedLanes) : MoveLaneNearer(laneKey)
    \/ \E laneKey \in KeySet(arrangedLanes) : MoveLaneFurther(laneKey)
    \/ \E laneKey \in KeySet(arrangedLanes) : DeleteLane(laneKey)
    \/ AddColumn
    \/ \E value \in InputValues, id \in 0..MaxId : ExitPendingLaneByValue(value, id)
    \/ \E typed \in InputValues, id \in 0..MaxId : ExitPendingLaneByEscape(typed, id)
    \/ \E laneKey \in KeySet(arrangedLanes) :
          \E pos \in 1..Len(ItemsOf(arrangedItems, laneKey)) : onDragStart(laneKey, pos)
    \/ \E destination \in Destinations : onDragUpdate(destination)
    \/ \E destination \in Destinations : onDragEnd(destination)
    \/ \E laneKey \in KeySet(arrangedLanes) :
          \E pos \in 1..Len(ItemsOf(arrangedItems, laneKey)) : onConfirm(laneKey, pos)

Spec == Init /\ [][Next]_vars

----------------------------------------------------------------------------
(* Vocabulary of the properties *)

ItemKeys(s) == [i \in 1..Len(s) |-> s[i].itemKey]

\* the places <<lane entry, position>> of the board that hold the item key
Places(items, key) ==
    { pl \in (1..Len(items)) \X (1..NItems + 1) :
        /\ pl[2] <= Len(items[pl[1]].items)
        /\ items[pl[1]].items[pl[2]].itemKey = key }

RECURSIVE TotalEntries(_)
TotalEntries(items) ==
    IF Len(items) = 0 THEN 0
    ELSE Len(items[Len(items)].items) + TotalEntries(SubSeq(items, 1, Len(items) - 1))

\* every order field of the sequence is the 0-based position
Ranked(s) == \A i \in 1..Len(s) : s[i].order = i - 1

RemoveAt(s, i) == SubSeq(s, 1, i - 1) \o SubSeq(s, i + 1, Len(s))

InsertAt(s, i, x) == SubSeq(s, 1, i - 1) \o <<x>> \o SubSeq(s, i, Len(s))

\* a drop on a lane of the board, as the drag in progress may end
IsDrop(destination) ==
    /\ destination # Null
    /\ HasOwnProperty(arrangedItems, destination.droppableId)

ValidSourceIndex ==
    drag.source.index \in 0..(Len(ItemsOf(arrangedItems, drag.source.droppableId)) - 1)

----------------------------------------------------------------------------
(* C1 *)

\* C1: in every reachable state, in every lane's sequence of arrangedItems
\* the item at position i has order = i.
C1_OrderIsPosition ==
    \A l \in 1..Len(arrangedItems) : Ranked(arrangedItems[l].items)

----------------------------------------------------------------------------
(* C2 *)

\* C2: after a drop from lane S to another lane D with source.index a
\* position of S and destination.index in 0..Len(D), the item that was at
\* source.index of S occurs exactly once on the board, at destination.index
\* of D, not in S, and (the example) S and D are re-ranked.
C2_CrossLaneMove ==
    [][ \A destination \in Destinations :
          ( /\ onDragEnd(destination)
            /\ IsDrop(destination)
            /\ destination.droppableId # drag.source.droppableId
            /\ ValidSourceIndex
            /\ destination.index \in
                  0..Len(ItemsOf(arrangedItems, destination.droppableId)) )
          =>
          LET S     == drag.source.droppableId
              D     == destination.droppableId
              moved == ItemsOf(arrangedItems, S)[drag.source.index + 1].itemKey
          IN  /\ Cardinality(Places(arrangedItems', moved)) = 1
              /\ ItemKeys(ItemsOf(arrangedItems', D))[destination.index + 1] = moved
              /\ \A i \in 1..Len(ItemsOf(arrangedItems', S)) :
                    ItemsOf(arrangedItems', S)[i].itemKey # moved
              /\ Ranked(ItemsOf(arrangedItems', S))
              /\ Ranked(ItemsOf(arrangedItems', D)) ]_vars

\* a drop between two lanes has just been committed, onto a lane that
\* already held a card
C2_Witness ==
    /\ last.op = "onDragEnd"
    /\ last.tag = "different lane"
    /\ ~crashed
    /\ \E l \in 1..Len(arrangedItems) :
          /\ Len(arrangedItems[l].items) >= 2
          /\ \E i \in 1..Len(arrangedItems[l].items) :
                arrangedItems[l].items[i].lane # arrangedItems[l].key

----------------------------------------------------------------------------
(* C3 *)

\* C3: after a drop whose source and destination are the same lane, every
\* item of that lane has order = its index, and the item that was at
\* source.index sits at destination.index.
C3_SameLaneMove ==
    [][ \A destination \in Destinations :
          ( /\ onDragEnd(destination)
            /\ IsDrop(destination)
            /\ destination.droppableId = drag.source.droppableId )
          =>
          LET S == drag.source.droppableId
          IN  /\ Ranked(ItemsOf(arrangedItems', S))
              /\ ValidSourceIndex =>
                    ItemKeys(ItemsOf(arrangedItems', S))[destination.index + 1]
                       = ItemsOf(arrangedItems, S)[drag.source.index + 1].itemKey ]_vars

----------------------------------------------------------------------------
(* C4 *)

\* C4: a drop with no destination leaves arrangedItems, arrangedLanes and
\* the rest of the board's state as they were and makes one announcement.
C4_CancelledDrag ==
    [][ onDragEnd(Null) =>
          /\ arrangedItems' = arrangedItems
          /\ arrangedLanes' = arrangedLanes
          /\ addingLane' = addingLane
          /\ idCounter' = idCounter
          /\ placeholderPosition' = placeholderPosition
          /\ last'.announced = 1 ]_vars

\* a drag of a board with at least two cards has just been cancelled
C4_Witness ==
    /\ last.op = "onDragEnd"
    /\ last.tag = "cancel"
    /\ TotalEntries(arrangedItems) >= 2

----------------------------------------------------------------------------
(* C5 *)

\* C5: a drop on a lane removes the element at source.index from the source
\* sequence and inserts it at destination.index of the destination
\* sequence; every other lane's sequence, the lane mapping and the number of
\* entries on the board are unchanged.
C5_DropFrame ==
    [][ \A destination \in Destinations :
          ( onDragEnd(destination) /\ IsDrop(destination) )
          =>
          LET S      == drag.source.droppableId
              D      == destination.droppableId
              before == [l \in 1..Len(arrangedItems) |-> ItemKeys(arrangedItems[l].items)]
              after  == [l \in 1..Len(arrangedItems') |-> ItemKeys(arrangedItems'[l].items)]
              s      == EntryIndex(arrangedItems, S)
              d      == EntryIndex(arrangedItems, D)
              rest   == RemoveAt(before[s], drag.source.index + 1)
          IN  /\ Keys(arrangedItems') = Keys(arrangedItems)
              /\ arrangedLanes' = arrangedLanes
              /\ TotalEntries(arrangedItems') = TotalEntries(arrangedItems)
              /\ \A l \in 1..Len(arrangedItems) :
                    l \notin {s, d} => arrangedItems'[l] = arrangedItems[l]
              /\ ValidSourceIndex =>
                    /\ s # d => after[s] = rest
                    /\ after[d] = InsertAt(IF s = d THEN rest ELSE before[d],
                                           destination.index + 1,
                                           before[s][drag.source.index + 1]) ]_vars

\* a drag of one of two or more cards has ended in a drop on its own lane
C3_Witness ==
    /\ last.op = "onDragEnd"
    /\ last.tag = "same lane"
    /\ \E l \in 1..Len(arrangedItems) : Len(arrangedItems[l].items) >= 2

----------------------------------------------------------------------------
(* C6, C7 *)

\* the menu entry of lane laneKey that calls moveLane(laneKey, delta)
MoveLaneStep(laneKey, delta) ==
    IF delta = -1 THEN MoveLaneNearer(laneKey) ELSE MoveLaneFurther(laneKey)

LaneIndex(lanes, laneKey) == IndexOf(Keys(lanes), laneKey)

Distance(a, b) == IF a < b THEN b - a ELSE a - b

\* C6: moveLane(k, d) with lane k at index i and 0 <= i+d < n puts k at
\* index i+d and the lane that was there at index i; every other lane keeps
\* its index, every lane its title, and arrangedItems is unchanged.
C6_MoveLaneSwaps ==
    [][ \A laneKey \in KeySet(arrangedLanes), delta \in {-1, 1} :
          LET i == LaneIndex(arrangedLanes, laneKey)
              n == Len(arrangedLanes)
          IN  ( MoveLaneStep(laneKey, delta) /\ i + delta \in 0..(n - 1) )
              =>
              /\ Len(arrangedLanes') = n
              /\ arrangedLanes'[i + delta + 1] = arrangedLanes[i + 1]
              /\ arrangedLanes'[i + 1] = arrangedLanes[i + delta + 1]
              /\ \A j \in 1..n :
                    j \notin {i + 1, i + delta + 1} => arrangedLanes'[j] = arrangedLanes[j]
              /\ arrangedItems' = arrangedItems ]_vars

\* a lane of a board of three lanes has just been moved by one slot
C6_Witness ==
    /\ last.op = "moveLane"
    /\ last.tag = "swap"
    /\ Len(arrangedLanes) = 3
    /\ TotalEntries(arrangedItems) >= 1

\* C7 as claimed: on every lane order the board reaches, moveLane(first
\* lane, -1) and moveLane(last lane, +1) give the same lane order back, and
\* no moveLane call moves any lane by more than one slot.
C7_EdgeMovesChangeNothing ==
    LET n == Len(arrangedLanes)
    IN  n >= 1 =>
           /\ moveLane(arrangedLanes, arrangedLanes[1].key, -1) = arrangedLanes
           /\ moveLane(arrangedLanes, arrangedLanes[n].key, 1) = arrangedLanes
           /\ \A laneKey \in KeySet(arrangedLanes), delta \in {-1, 1} :
                 \A k \in KeySet(arrangedLanes) :
                    Distance(LaneIndex(moveLane(arrangedLanes, laneKey, delta), k),
                             LaneIndex(arrangedLanes, k)) <= 1

\* what moveLane(first lane, -1) does: splice(-1, 0, key) counts from the
\* end of the n-1 keys left, so the first lane lands at index n-2 (at 0
\* again only when n <= 2)
FirstLaneLandsBeforeLast ==
    LET n == Len(arrangedLanes)
    IN  n >= 1 =>
           LaneIndex(moveLane(arrangedLanes, arrangedLanes[1].key, -1),
                     arrangedLanes[1].key) = Max(n - 2, 0)

\* C7 amended: the menu never calls moveLane(first lane, -1); the call
\* moveLane(last lane, +1) changes nothing; every call the menu makes moves
\* each lane by at most one slot and keeps the set of lanes; moveLane(first
\* lane, -1) itself would put the first lane at index n-2.
C7_MenuMovesAreBounded ==
    /\ []FirstLaneLandsBeforeLast
    /\ [][ \A laneKey \in KeySet(arrangedLanes), delta \in {-1, 1} :
             LET i == LaneIndex(arrangedLanes, laneKey)
                 n == Len(arrangedLanes)
             IN  MoveLaneStep(laneKey, delta)
                 =>
                 /\ i + delta >= 0
                 /\ i + delta = n => arrangedLanes' = arrangedLanes
                 /\ KeySet(arrangedLanes') = KeySet(arrangedLanes)
                 /\ Len(arrangedLanes') = n
                 /\ \A k \in KeySet(arrangedLanes) :
                       Distance(LaneIndex(arrangedLanes', k),
                                LaneIndex(arrangedLanes, k)) <= 1 ]_vars

\* moveLane(last lane, +1) has just run on a board of three lanes (the
\* entry is enabled while a lane is pending)
C7_Witness ==
    /\ last.op = "moveLane"
    /\ last.tag = "edge"
    /\ Len(arrangedLanes) = 3

----------------------------------------------------------------------------
(* C8 *)

\* C8: deleteLane(k) removes exactly the entry k of arrangedLanes, the other
\* lanes keep their relative order and titles, and arrangedItems is
\* unchanged, entry k included.
C8_DeleteLaneFrame ==
    [][ \A laneKey \in KeySet(arrangedLanes) :
          DeleteLane(laneKey)
          =>
          /\ arrangedLanes' = RemoveAt(arrangedLanes, LaneIndex(arrangedLanes, laneKey) + 1)
          /\ laneKey \notin KeySet(arrangedLanes')
          /\ arrangedItems' = arrangedItems
          /\ laneKey \in KeySet(arrangedItems') ]_vars

\* a lane that was not the last of its board has just been deleted, with
\* cards on the board
C8_Witness ==
    /\ last.op = "deleteLane"
    /\ \E l \in 1..Len(arrangedItems) :
          /\ arrangedItems[l].key \notin KeySet(arrangedLanes)
          /\ \E m \in 1..Len(arrangedLanes) :
                \E l2 \in (l + 1)..Len(arrangedItems) :
                    arrangedItems[l2].key = arrangedLanes[m].key
    /\ TotalEntries(arrangedItems) >= 1

----------------------------------------------------------------------------
(* C9, C10 *)

\* C9: leaving the pending lane by blur or Enter with a non-empty value adds
\* exactly one lane, last in the lane order, under a key no lane had, with
\* the value as title and no items; the lanes and item sequences there were
\* are unchanged, and addingLane becomes false.
C9_PendingLanePromoted ==
    [][ \A value \in InputValues, id \in 0..MaxId :
          ( ExitPendingLaneByValue(value, id) /\ Len(value) > 0 )
          =>
          LET n   == Len(arrangedLanes)
              new == arrangedLanes'[n + 1]
          IN  /\ Len(arrangedLanes') = n + 1
              /\ SubSeq(arrangedLanes', 1, n) = arrangedLanes
              /\ new.key \notin KeySet(arrangedLanes)
              /\ new.key \notin KeySet(arrangedItems)
              /\ new.title = value
              /\ Len(arrangedItems') = Len(arrangedItems) + 1
              /\ SubSeq(arrangedItems', 1, Len(arrangedItems)) = arrangedItems
              /\ ItemsOf(arrangedItems', new.key) = << >>
              /\ addingLane' = FALSE ]_vars

\* a second generated lane has just been added to a board with cards
C9_Witness ==
    /\ last.op = "exitPendingLane"
    /\ last.tag = "promote"
    /\ Len(arrangedLanes) = 3
    /\ TotalEntries(arrangedItems) >= 1

NoEmptyTitle == \A l \in 1..Len(arrangedLanes) : Len(arrangedLanes[l].title) > 0

\* C10: leaving the pending lane by Escape, whatever was typed, or by blur
\* or Enter with an empty value leaves arrangedLanes and arrangedItems as
\* they were and sets addingLane to false; no lane ever has an empty title.
C10_PendingLaneDiscarded ==
    /\ []NoEmptyTitle
    /\ [][ \A typed \in InputValues, id \in 0..MaxId :
             ( ExitPendingLaneByEscape(typed, id) \/ ExitPendingLaneByValue("", id) )
             =>
             /\ arrangedLanes' = arrangedLanes
             /\ arrangedItems' = arrangedItems
             /\ idCounter' = idCounter
             /\ addingLane' = FALSE ]_vars

\* the pending lane has just been left by Escape with text typed
C10_Witness ==
    /\ last.op = "exitPendingLane"
    /\ last.tag = "discard typed"
    /\ ~addingLane
    /\ Len(arrangedLanes) >= 1

----------------------------------------------------------------------------
(* The layout pass of one BoardLane, BoardLane:157-217, 359 *)

\* the most renders of the lane the model follows
MaxRenders == 10

\* widths the window may leave to the lane's content box (from 15rem to 22.5rem
\* at 16px, BoardLane:208-209), and widths a vertical scrollbar may take
WindowWidths == {240, 300, 360}

ScrollbarWidths == {0, 16}

\* a variant of NextLayoutState for a switch whose cases lack break: every
\* setLayoutState below the matching case runs, and the last one wins
NextLayoutStateFallThrough(state) == IF state \in {-1, 0, 1} THEN 2 ELSE state

\* BoardLane:179-196: the layoutState the effect sets, by the case it takes
NextLayoutState(state) ==
    CASE state = -1 -> 0
      [] state = 0  -> 1
      [] state = 1  -> 2
      [] OTHER      -> state

\* BoardLane:212
Opacity == IF layoutState = 2 THEN 1 ELSE 0

\* BoardLane:359: layoutState > 0 && preparedItems?.length
ItemsRendered(preparedItems) == layoutState > 0 /\ Len(preparedItems) > 0

\* the state of the board while one of its lanes is followed
BoardAtRest ==
    /\ arrangedLanes = LaneProps
    /\ arrangedItems = prepareBoardItems(<< >>, LaneProps)
    /\ addingLane = FALSE
    /\ placeholderPosition = Null
    /\ idCounter = 0
    /\ drag = Null
    /\ crashed = FALSE
    /\ last = [op |-> "BoardLane", tag |-> "", announced |-> 0]

\* BoardLane:157-160: the lane's first render
InitLane ==
    /\ BoardAtRest
    /\ layoutState = -1
    /\ scrollbarWidth = 16
    /\ laneContentWidth = << >>
    /\ resizeListeners = {}
    /\ laneRenders = 1
    /\ laneEffect = 0
    /\ laneMounted = TRUE
    /\ windowWidth \in WindowWidths

\* a render has been committed whose layout effect has not run yet
EffectPending == laneMounted /\ laneEffect < laneRenders

\* BoardLane:198-200: the cleanup of the effect that ran last removes the
\* onResize of that effect's render
CleanedUp == resizeListeners \ {laneEffect}

\* BoardLane:166-201, with the render its state updates cause.  At
\* layoutState 0 no item is rendered and the content box has the full
\* width; at 1 the items may have brought a scrollbar of width bar.
LayoutEffect(bar) ==
    /\ EffectPending
    /\ laneEffect' = laneRenders
    /\ layoutState' = NextLayoutState(layoutState)
    /\ laneRenders' = IF layoutState \in {-1, 0, 1} THEN laneRenders + 1 ELSE laneRenders
    /\ resizeListeners' =
          IF layoutState = -1 THEN CleanedUp \cup {laneRenders} ELSE CleanedUp
    /\ laneContentWidth' =
          IF layoutState = 0 THEN <<windowWidth>> ELSE laneContentWidth
    /\ scrollbarWidth' =
          IF layoutState = 1 /\ laneContentWidth # << >> /\ laneContentWidth[1] # 0
          THEN laneContentWidth[1] - (windowWidth - bar)
          ELSE scrollbarWidth
    /\ UNCHANGED <<boardVars, laneMounted, windowWidth>>

\* the lane's share of a window resize: each onResize registered runs
\* setLayoutState(0), BoardLane:162-164; a lane not mounted ignores it
WindowResize(width) ==
    /\ ~EffectPending
    /\ laneRenders + 3 <= MaxRenders
    /\ width # windowWidth
    /\ windowWidth' = width
    /\ IF resizeListeners # {} /\ laneMounted /\ layoutState # 0
       THEN /\ layoutState' = 0
            /\ laneRenders' = laneRenders + 1
       ELSE UNCHANGED <<layoutState, laneRenders>>
    /\ UNCHANGED <<boardVars, scrollbarWidth, laneContentWidth, resizeListeners,
                   laneEffect, laneMounted>>

\* Board.tsx:393-483: the board renders again and the lane with it
ParentRender ==
    /\ laneMounted
    /\ ~EffectPending
    /\ laneRenders + 3 <= MaxRenders
    /\ laneRenders' = laneRenders + 1
    /\ UNCHANGED <<boardVars, layoutState, scrollbarWidth, laneContentWidth,
                   resizeListeners, laneEffect, laneMounted, windowWidth>>

\* the lane leaves the tree (deleteLane, or the pending lane's exit): the
\* last effect's cleanup runs, BoardLane:198-200
LaneUnmount ==
    /\ laneMounted
    /\ ~EffectPending
    /\ laneMounted' = FALSE
    /\ resizeListeners' = CleanedUp
    /\ UNCHANGED <<boardVars, layoutState, scrollbarWidth, laneContentWidth,
                   laneRenders, laneEffect, windowWidth>>

NextLane ==
    \/ \E bar \in ScrollbarWidths : LayoutEffect(bar)
    \/ \E width \in WindowWidths : WindowResize(width)
    \/ ParentRender
    \/ LaneUnmount

SpecLane == InitLane /\ [][NextLane]_vars

\* React runs a committed render's layout effects before anything else
FairSpecLane == SpecLane /\ WF_vars(\E bar \in ScrollbarWidths : LayoutEffect(bar))

----------------------------------------------------------------------------
(* C11: prepareBoardItems on any props, Board.tsx:106-129, 524-529 *)

\* the keys props.lanes may have, in any order, and the lane values items
\* may name ("x" is never a lane).  Keys are ordinary identifiers: not
\* integer-like (Object.keys would order those first) and not names of
\* Object.prototype members.
AnyLaneKeys == {"a", "b"}

AnyItemLanes == AnyLaneKeys \cup {"x"}

\* every props.lanes over AnyLaneKeys: each key at most once, any order
AnyPropsLanes ==
    { [i \in 1..Len(ks) |-> [key |-> ks[i], title |-> "T"]] :
        ks \in { k \in UNION { [1..n -> AnyLaneKeys] : n \in 0..Cardinality(AnyLaneKeys) } :
                    \A i, j \in 1..Len(k) : k[i] = k[j] => i = j } }

\* every props.items of NItems items: any lane value, any order value
\* (repeated and missing ranks included), listed in Object.keys order
AnyPropsItems ==
    { items \in [1..NItems -> [itemKey : {ItemKeyOf(i) : i \in 1..NItems},
                               lane : AnyItemLanes, order : 0..(NItems - 1)]] :
        \A i \in 1..NItems : items[i].itemKey = ItemKeyOf(i) }

\* Board is about to be rendered with some props; no state exists yet
InitProps ==
    /\ \E lanes \in AnyPropsLanes, items \in AnyPropsItems :
          last = [op |-> "props", tag |-> "", announced |-> 0,
                  items |-> items, lanes |-> lanes]
    /\ arrangedLanes = << >>
    /\ arrangedItems = << >>
    /\ addingLane = FALSE
    /\ placeholderPosition = Null
    /\ idCounter = 0
    /\ drag = Null
    /\ crashed = FALSE
    /\ LaneLaidOut

\* Board.tsx:524-531: the first render's useState initialisers
BoardFirstRender ==
    /\ last.op = "props"
    /\ arrangedLanes' = last.lanes
    /\ arrangedItems' = prepareBoardItems(last.items, last.lanes)
    /\ last' = [last EXCEPT !.op = "Board"]
    /\ UNCHANGED <<laneVars, addingLane, placeholderPosition, idCounter, drag, crashed>>

NextProps == BoardFirstRender

SpecProps == InitProps /\ [][NextProps]_vars

\* C11: prepareBoardItems(items, lanes) has exactly the lane keys, in lane
\* order; the sequence of lane L holds exactly the items whose lane is L,
\* each once and as given, in ascending order; a lane no item names has
\* the empty sequence, and an item naming no lane is in no sequence.
C11_PreparedItems ==
    last.op = "Board" =>
        /\ Keys(arrangedItems) = Keys(last.lanes)
        /\ \A l \in 1..Len(arrangedItems) :
              LET L     == arrangedItems[l].key
                  group == arrangedItems[l].items
                  named == {j \in 1..NItems : last.items[j].lane = L}
              IN  /\ Len(group) = Cardinality(named)
                  /\ {group[i] : i \in 1..Len(group)} = {last.items[j] : j \in named}
                  /\ \A i, j \in 1..Len(group) :
                        i < j => group[i].order <= group[j].order
        /\ TotalEntries(arrangedItems) =
              Cardinality({j \in 1..NItems : last.items[j].lane \in KeySet(last.lanes)})

\* props with lanes b, a in that order, two items of one lane given out of
\* order and an item that names no lane have been prepared
C11_Witness ==
    /\ last.op = "Board"
    /\ Keys(arrangedItems) = <<"b", "a">>
    /\ \E i, j \in 1..NItems :
          /\ i < j
          /\ last.items[i].lane = "a"
          /\ last.items[j].lane = "a"
          /\ last.items[i].order > last.items[j].order
    /\ \E i \in 1..NItems : last.items[i].lane = "x"

----------------------------------------------------------------------------
(* C12, C15: the lane's layout pass and its resize listener *)

AnyLayoutEffect == \E bar \in ScrollbarWidths : LayoutEffect(bar)

AnyWindowResize == \E width \in WindowWidths : WindowResize(width)

OneCard == << [itemKey |-> "i1", lane |-> "a", order |-> 0] >>

\* C12: each layout effect moves layoutState one step along -1, 0, 1, 2 and
\* at 2 updates no state; layoutState never goes down but by a resize; a
\* mounted lane reaches layoutState 2; the lane is opaque exactly at
\* layoutState 2 and shows items only at layoutState above 0.
C12_LayoutPass ==
    /\ [][ /\ AnyLayoutEffect =>
                /\ layoutState \in -1..2
                /\ layoutState < 2 => layoutState' = layoutState + 1
                /\ layoutState = 2 =>
                      UNCHANGED <<layoutState, scrollbarWidth, laneRenders>>
           /\ layoutState' # layoutState => (AnyLayoutEffect \/ AnyWindowResize)
           /\ layoutState' < layoutState => AnyWindowResize ]_vars
    /\ [](Opacity = 1 <=> layoutState = 2)
    /\ [](\A preparedItems \in {<< >>, OneCard} :
             ItemsRendered(preparedItems) => layoutState > 0)
    /\ (laneMounted ~> (layoutState = 2 \/ ~laneMounted))

\* the lane has finished its first layout pass, in four renders, with a
\* scrollbar measured
C12_Witness ==
    /\ laneMounted
    /\ layoutState = 2
    /\ ~EffectPending
    /\ laneRenders = 4
    /\ laneContentWidth # << >>
    /\ scrollbarWidth = 0
    /\ ItemsRendered(OneCard)

\* C15: a mounted lane whose effects have run has exactly one resize
\* listener on the window, so a window resize sets layoutState to 0 and the
\* lane comes back to layoutState 2; an unmounted lane has none.
C15_ResizeListenerKept ==
    /\ []( (laneMounted /\ ~EffectPending) => Cardinality(resizeListeners) = 1 )
    /\ []( ~laneMounted => resizeListeners = {} )
    /\ [][ (AnyWindowResize /\ laneMounted) => layoutState' = 0 ]_vars
    /\ ( (laneMounted /\ layoutState # 2) ~> (layoutState = 2 \/ ~laneMounted) )

\* the lane is laid out and mounted, and nothing listens to the window
C15_Witness ==
    /\ laneMounted
    /\ layoutState = 2
    /\ ~EffectPending
    /\ resizeListeners = {}
    /\ laneContentWidth # << >>
    /\ laneContentWidth[1] # windowWidth

----------------------------------------------------------------------------
(* C13, C14, C16: the board after drops and cancelled drags *)

\* the entries of lane entry l that are items (undefined is none)
HeldItems(l) == SelectSeq(arrangedItems[l].items, LAMBDA it : it # undefined)

\* C13: confirming the delete dialog of the item shown at position pos of a
\* lane removes that item from that lane, and every lane keeps its other
\* items in their order.
C13_DeleteRemovesItem ==
    [][ \A l \in 1..Len(arrangedItems), pos \in 1..(NItems + 1) :
          ( /\ arrangedItems[l].key \in KeySet(arrangedLanes)
            /\ pos <= Len(arrangedItems[l].items)
            /\ onConfirm(arrangedItems[l].key, pos) )
          =>
          /\ Places(arrangedItems', arrangedItems[l].items[pos].itemKey) = {}
          /\ Len(arrangedItems') = Len(arrangedItems)
          /\ \A m \in 1..Len(arrangedItems) :
                ItemKeys(arrangedItems'[m].items) =
                   ItemKeys(IF m = l THEN RemoveAt(arrangedItems[m].items, pos)
                            ELSE arrangedItems[m].items) ]_vars

\* a delete has been confirmed on a board where an earlier drop had moved
\* an item to another lane
C13_Witness ==
    /\ last.op = "onConfirm"
    /\ ~crashed
    /\ \E l \in 1..Len(arrangedItems) :
          \E i \in 1..Len(arrangedItems[l].items) :
              arrangedItems[l].items[i].lane # arrangedItems[l].key

\* C14: every item held in the sequence of lane L has lane field L.
C14_LaneFieldIsHolder ==
    \A l \in 1..Len(arrangedItems) :
        \A i \in 1..Len(HeldItems(l)) :
            HeldItems(l)[i].lane = arrangedItems[l].key

\* a drop has just moved an item to another lane
C14_Witness ==
    /\ last.op = "onDragEnd"
    /\ last.tag = "different lane"
    /\ ~crashed
    /\ TotalEntries(arrangedItems) >= 1

\* C16: whenever no drag is in progress placeholderPosition is null.
C16_PlaceholderNullAtRest == drag = Null => placeholderPosition = Null

\* a drag has just been cancelled
C16_Witness ==
    /\ last.op = "onDragEnd"
    /\ last.tag = "cancel"
    /\ drag = Null

====
